---- MODULE Spec2Model ----
(***************************************************************************)
(* Resume GraphQL API (src/main.py): three tables behind a GraphQL schema. *)
(* The store is the relational database with the constraints the ORM       *)
(* models declare; every request owns one session; a resolver or mutation  *)
(* is split at its awaits on the store, where other requests interleave.   *)
(*                                                                         *)
(* Python values:                                                          *)
(*   None is <<>>, any other optional value v is <<v>>;                    *)
(*   a str holding an identifier is [form, id] with form "canon" (the      *)
(*   lower-case hyphenated text str(uuid) produces), "upper" (the same     *)
(*   identifier written in upper case), "empty" ("") or "bad" (text that   *)
(*   is no identifier); a uuid.UUID object is [form |-> "uuid", id];       *)
(*   a float or Decimal grade is an integer number of thousandths; the     *)
(*   store's NUMERIC(3,2) holds an integer number of hundredths.           *)
(* The timestamp columns, the dates, location, major, minor and details    *)
(* are carried by the same statements as the columns modelled here and     *)
(* are left out.                                                           *)
(***************************************************************************)
EXTENDS Integers, Sequences, FiniteSets, Bags, TLC

\* uuid.uuid4() draws from 1..MaxId: a draw may repeat an earlier one.
MaxId == 2

\* The most top-level mutation fields one request document holds.
MaxFields == 3

UUIDs == 1..MaxId

\* The requests that may be in flight at once, each with its own session.
Requests == {"r1", "r2"}

None == <<>>
Some(v) == <<v>>

Canon(u) == [form |-> "canon", id |-> u]
Upper(u) == [form |-> "upper", id |-> u]
EmptyStr == [form |-> "empty", id |-> 0]
BadStr == [form |-> "bad", id |-> 0]
PyUUID(u) == [form |-> "uuid", id |-> u]

\* Identifier texts a client sends.
IdStrings == {Canon(u) : u \in UUIDs} \cup {Upper(1), EmptyStr, BadStr}

\* The CreateUserInput values a client sends.
CreateUserInputs ==
    {[email |-> "a@b.com", full_name |-> None, password |-> "x"],
     [email |-> "c@d.com", full_name |-> Some("Ann"), password |-> "x"]}
\* The CreateEducationInput values; gpa is absent, 0.0, 0.004, 3.756 or 9.996.
GpaInputs == {None, Some(0), Some(4), Some(3756), Some(9996)}
CreateEducationInputs ==
    [user_id : IdStrings, institution_name : {"MIT"}, gpa : GpaInputs]
\* The CreateJobExperienceInput values.
CreateJobExperienceInputs == [user_id : IdStrings, company_name : {"Acme"}]

\* The store's three tables; then, per request: where its handler stands, the
\* operation it runs, the operation's input (a mutation's input object, a
\* query's document), the ORM object of a mutation, the exception being
\* handled, the mutation's response, and for a query the field resolutions
\* still to run, the session.execute calls issued so far and the latest
\* resolver call with what it returned.  The request's session outlives a
\* handler: txn is the rows its open transaction wrote (held in the tables,
\* gone again if the transaction is rolled back), and data is the responses
\* of the mutation fields of the document that have returned so far.
VARIABLES users, education, job_experience,
          pc, op, input, obj, exc, resp, pending, calls, last, txn, data

vars == <<users, education, job_experience,
          pc, op, input, obj, exc, resp, pending, calls, last, txn, data>>

tables == <<users, education, job_experience>>
mutation == <<obj, resp>>
query == <<pending, calls, last>>
document == <<txn, data>>

\* str(x): the text of a UUID object is canonical; a str is itself.
Str(x) == IF x.form = "uuid" THEN Canon(x.id) ELSE x

\* The store's cast of a bound parameter to the uuid type.
IsUuidText(x) == x.form \in {"uuid", "canon", "upper"}
ToUuid(x) == x.id

\* Python truthiness of an Optional[str] and of an Optional number.
TruthyStr(o) == o # None /\ o[1].form # "empty"
TruthyNum(o) == o # None /\ o[1] # 0

\* f"hashed_{input.password}"
HashPassword(p) == <<"hashed_", p>>

\* A variant that tests "is not None": a grade of 0.0 is kept.
GpaToDecimalNotNone(g) == g

\* Decimal(str(input.gpa)) if input.gpa else None
GpaToDecimal(g) == IF TruthyNum(g) THEN g ELSE None

\* float(edu.gpa) if edu.gpa else None
GpaToFloat(d) == IF TruthyNum(d) THEN d ELSE None

\* NUMERIC(3,2): the store rounds a value to two decimals, half away from zero.
RoundHundredths(t) == IF t >= 0 THEN (t + 5) \div 10 ELSE -((-t + 5) \div 10)
NumericFits(o) == o = None \/ (RoundHundredths(o[1]) < 1000 /\ RoundHundredths(o[1]) > -1000)
ToNumeric(o) == IF o = None THEN None ELSE Some(RoundHundredths(o[1]))
\* The driver's Decimal for a stored NUMERIC(3,2).
FromNumeric(o) == IF o = None THEN None ELSE Some(o[1] * 10)

(***************************************************************************)
(* The store's constraints, as the ORM models declare them.                *)
(***************************************************************************)
UserIds == {u.user_id : u \in users}
EducationIds == {e.education_id : e \in education}
JobIds == {j.job_id : j \in job_experience}

\* default=uuid.uuid4: identifiers are opaque, so a draw is either one of the
\* keys already in the table or the least identifier not yet in it.
Uuid4(used) ==
    used \cup (IF UUIDs \ used = {} THEN {}
               ELSE {CHOOSE u \in UUIDs \ used : \A v \in UUIDs \ used : u <= v})

\* A variant without the primary key.
PrimaryKeyUnchecked(ids, id) == TRUE

\* primary_key=True on user_id, education_id, job_id
PrimaryKeyFree(ids, id) == id \notin ids
\* users.email unique=True
EmailUnique(email) == \A u \in users : u.email # email
\* ForeignKey("users.user_id")
UserExists(uid) == \E u \in users : u.user_id = uid

(***************************************************************************)
(* The ORM objects a SELECT loads and the GraphQL types built from them.   *)
(***************************************************************************)
UserModel(row) ==
    [state |-> "persistent", user_id |-> PyUUID(row.user_id), email |-> row.email,
     full_name |-> row.full_name, password_hash |-> row.password_hash]
EducationModel(row) ==
    [state |-> "persistent", education_id |-> PyUUID(row.education_id),
     user_id |-> PyUUID(row.user_id), institution_name |-> row.institution_name,
     gpa |-> FromNumeric(row.gpa)]
JobExperienceModel(row) ==
    [state |-> "persistent", job_id |-> PyUUID(row.job_id),
     user_id |-> PyUUID(row.user_id), company_name |-> row.company_name]

User(o) ==
    [type |-> "User", user_id |-> Str(o.user_id), email |-> o.email,
     full_name |-> o.full_name]
Education(o) ==
    [type |-> "Education", education_id |-> Str(o.education_id),
     user_id |-> Str(o.user_id), institution_name |-> o.institution_name,
     gpa |-> GpaToFloat(o.gpa)]
JobExperience(o) ==
    [type |-> "JobExperience", job_id |-> Str(o.job_id), user_id |-> Str(o.user_id),
     company_name |-> o.company_name]

\* session.refresh(o): the attributes of o are loaded again from its row.
RefreshUser(o) == UserModel(CHOOSE u \in users : u.user_id = o.user_id.id)
\* A variant that does not load the object again.
NoRefreshEducation(o) == o

RefreshEducation(o) ==
    EducationModel(CHOOSE e \in education : e.education_id = o.education_id.id)
RefreshJobExperience(o) ==
    JobExperienceModel(CHOOSE j \in job_experience : j.job_id = o.job_id.id)

\* A transaction that wrote nothing.
NoWrites == [users |-> {}, education |-> {}, job_experience |-> {}]

\* A variant that flushes without committing: the transaction stays open.
CommitDeferred(written) == written

\* await session.commit(): the rows written are durable and the transaction
\* is over; the next statement of the session begins a new one.
Commit(written) == NoWrites

\* ROLLBACK, or the loss of the connection: the store drops the rows the
\* open transaction wrote.
Undo(table, written) == table \ written

Success(entity) ==
    [success |-> TRUE, message |-> "created successfully", entity |-> Some(entity)]
Failure(e) == [success |-> FALSE, message |-> e, entity |-> None]

Init ==
    /\ users = {}
    /\ education = {}
    /\ job_experience = {}
    /\ pc = [r \in Requests |-> "idle"]
    /\ op = [r \in Requests |-> "none"]
    /\ input = [r \in Requests |-> None]
    /\ obj = [r \in Requests |-> None]
    /\ exc = [r \in Requests |-> None]
    /\ resp = [r \in Requests |-> None]
    /\ pending = [r \in Requests |-> EmptyBag]
    /\ calls = [r \in Requests |-> 0]
    /\ last = [r \in Requests |-> None]
    /\ txn = [r \in Requests |-> NoWrites]
    /\ data = [r \in Requests |-> <<>>]

(***************************************************************************)
(* The three mutations up to the end of session.commit(): the object is    *)
(* built and added, and the store takes the INSERT or rejects it.          *)
(***************************************************************************)
\* The INSERT went through: refresh() is awaited next.
Committed(r, name, in, o) ==
    /\ op' = [op EXCEPT ![r] = name]
    /\ input' = [input EXCEPT ![r] = Some(in)]
    /\ obj' = [obj EXCEPT ![r] = Some([o EXCEPT !.state = "persistent"])]
    /\ pc' = [pc EXCEPT ![r] = "refresh"]
    /\ exc' = exc
    /\ LET t == txn[r]
           written ==
               CASE name = "create_user" ->
                      [t EXCEPT !.users = @ \cup (users' \ users)]
                 [] name = "create_education" ->
                      [t EXCEPT !.education = @ \cup (education' \ education)]
                 [] name = "create_job_experience" ->
                      [t EXCEPT !.job_experience =
                                    @ \cup (job_experience' \ job_experience)]
       IN  txn' = [txn EXCEPT ![r] = Commit(written)]
    /\ data' = data

\* commit() raised: the flush failed and the session dropped the pending object.
CommitRaised(r, name, in, e) ==
    /\ op' = [op EXCEPT ![r] = name]
    /\ input' = [input EXCEPT ![r] = Some(in)]
    /\ obj' = obj
    /\ pc' = [pc EXCEPT ![r] = "except"]
    /\ exc' = [exc EXCEPT ![r] = Some(e)]
    /\ UNCHANGED document

CreateUser(r) ==
    /\ pc[r] = "idle"
    /\ \E in \in CreateUserInputs, id \in Uuid4(UserIds) :
         LET new_user == [state |-> "pending", user_id |-> PyUUID(id),
                          email |-> in.email, full_name |-> in.full_name,
                          password_hash |-> HashPassword(in.password)]
         IN  IF PrimaryKeyFree(UserIds, id) /\ EmailUnique(new_user.email)
             THEN /\ users' = users \cup
                       {[user_id |-> id, email |-> new_user.email,
                         full_name |-> new_user.full_name,
                         password_hash |-> new_user.password_hash]}
                  /\ Committed(r, "create_user", in, new_user)
             ELSE /\ users' = users
                  /\ CommitRaised(r, "create_user", in, "IntegrityError")
    /\ UNCHANGED <<education, job_experience, resp, query>>

CreateEducation(r) ==
    /\ pc[r] = "idle"
    /\ \E in \in CreateEducationInputs, id \in Uuid4(EducationIds) :
         LET new_education ==
                 [state |-> "pending", education_id |-> PyUUID(id),
                  user_id |-> in.user_id, institution_name |-> in.institution_name,
                  gpa |-> GpaToDecimal(in.gpa)]
         IN  IF ~IsUuidText(new_education.user_id) \/ ~NumericFits(new_education.gpa)
             THEN /\ education' = education
                  /\ CommitRaised(r, "create_education", in, "DataError")
             ELSE IF /\ PrimaryKeyFree(EducationIds, id)
                     /\ UserExists(ToUuid(new_education.user_id))
             THEN /\ education' = education \cup
                       {[education_id |-> id,
                         user_id |-> ToUuid(new_education.user_id),
                         institution_name |-> new_education.institution_name,
                         gpa |-> ToNumeric(new_education.gpa)]}
                  /\ Committed(r, "create_education", in, new_education)
             ELSE /\ education' = education
                  /\ CommitRaised(r, "create_education", in, "IntegrityError")
    /\ UNCHANGED <<users, job_experience, resp, query>>

CreateJobExperience(r) ==
    /\ pc[r] = "idle"
    /\ \E in \in CreateJobExperienceInputs, id \in Uuid4(JobIds) :
         LET new_job == [state |-> "pending", job_id |-> PyUUID(id),
                         user_id |-> in.user_id, company_name |-> in.company_name]
         IN  IF ~IsUuidText(new_job.user_id)
             THEN /\ job_experience' = job_experience
                  /\ CommitRaised(r, "create_job_experience", in, "DataError")
             ELSE IF /\ PrimaryKeyFree(JobIds, id)
                     /\ UserExists(ToUuid(new_job.user_id))
             THEN /\ job_experience' = job_experience \cup
                       {[job_id |-> id, user_id |-> ToUuid(new_job.user_id),
                         company_name |-> new_job.company_name]}
                  /\ Committed(r, "create_job_experience", in, new_job)
             ELSE /\ job_experience' = job_experience
                  /\ CommitRaised(r, "create_job_experience", in, "IntegrityError")
    /\ UNCHANGED <<users, education, resp, query>>

Mutations == {"create_user", "create_education", "create_job_experience"}

InputsOf(name) ==
    CASE name = "create_user" -> CreateUserInputs
      [] name = "create_education" -> CreateEducationInputs
      [] name = "create_job_experience" -> CreateJobExperienceInputs

\* The connection to the store is lost while commit() is awaited: nothing is stored.
CommitFails(r) ==
    /\ pc[r] = "idle"
    /\ \E name \in Mutations : \E in \in InputsOf(name) :
         CommitRaised(r, name, in, "OperationalError")
    /\ UNCHANGED <<tables, resp, query>>

(***************************************************************************)
(* session.refresh(), then the success response built from the object.     *)
(***************************************************************************)
Return(r, o, entity) ==
    /\ obj' = [obj EXCEPT ![r] = Some(o)]
    /\ resp' = [resp EXCEPT ![r] = Some(Success(entity))]
    /\ data' = [data EXCEPT ![r] = Append(@, Success(entity))]
    /\ pc' = [pc EXCEPT ![r] = "done"]
    /\ UNCHANGED <<tables, op, input, exc, query, txn>>

ReturnUser(r) ==
    /\ pc[r] = "refresh" /\ op[r] = "create_user"
    /\ LET new_user == RefreshUser(obj[r][1]) IN Return(r, new_user, User(new_user))

ReturnEducation(r) ==
    /\ pc[r] = "refresh" /\ op[r] = "create_education"
    /\ LET new_education == RefreshEducation(obj[r][1])
       IN  Return(r, new_education, Education(new_education))

ReturnJobExperience(r) ==
    /\ pc[r] = "refresh" /\ op[r] = "create_job_experience"
    /\ LET new_job == RefreshJobExperience(obj[r][1])
       IN  Return(r, new_job, JobExperience(new_job))

\* The connection is lost while refresh() is awaited, after the commit.
RefreshFails(r) ==
    /\ pc[r] = "refresh"
    /\ exc' = [exc EXCEPT ![r] = Some("OperationalError")]
    /\ pc' = [pc EXCEPT ![r] = "except"]
    /\ UNCHANGED <<tables, op, input, mutation, query, document>>

(***************************************************************************)
(* except Exception as e: await session.rollback(); return the failure.    *)
(***************************************************************************)
\* The session's open transaction ends without a commit.
Discard(r) ==
    /\ users' = Undo(users, txn[r].users)
    /\ education' = Undo(education, txn[r].education)
    /\ job_experience' = Undo(job_experience, txn[r].job_experience)
    /\ txn' = [txn EXCEPT ![r] = NoWrites]

Rollback(r) ==
    /\ pc[r] = "except"
    /\ Discard(r)
    /\ resp' = [resp EXCEPT ![r] = Some(Failure(exc[r][1]))]
    /\ data' = [data EXCEPT ![r] = Append(@, Failure(exc[r][1]))]
    /\ pc' = [pc EXCEPT ![r] = "done"]
    /\ UNCHANGED <<op, input, obj, exc, query>>

\* session.rollback() itself fails on a lost connection: nothing catches its
\* error, which leaves the handler (exc keeps the exception that was caught).
RollbackRaises(r) ==
    /\ pc[r] = "except"
    /\ Discard(r)
    /\ pc' = [pc EXCEPT ![r] = "raised"]
    /\ UNCHANGED <<op, input, exc, mutation, query, data>>

\* The response (or the error) leaves; the request and its session are over.
Finish(r) ==
    /\ pc[r] \in {"done", "raised"}
    /\ pc' = [pc EXCEPT ![r] = "idle"]
    /\ op' = [op EXCEPT ![r] = "none"]
    /\ input' = [input EXCEPT ![r] = None]
    /\ obj' = [obj EXCEPT ![r] = None]
    /\ exc' = [exc EXCEPT ![r] = None]
    /\ resp' = [resp EXCEPT ![r] = None]
    /\ pending' = [pending EXCEPT ![r] = EmptyBag]
    /\ calls' = [calls EXCEPT ![r] = 0]
    /\ last' = [last EXCEPT ![r] = None]
    /\ data' = [data EXCEPT ![r] = <<>>]
    /\ Discard(r)

\* A mutation field has returned and the document holds another one: the
\* fields of a mutation run one after another, each handler called with the
\* same context and so on the same session.
NextField(r) ==
    /\ pc[r] = "done" /\ op[r] \in Mutations
    /\ Len(data[r]) < MaxFields
    /\ pc' = [pc EXCEPT ![r] = "idle"]
    /\ op' = [op EXCEPT ![r] = "none"]
    /\ input' = [input EXCEPT ![r] = None]
    /\ obj' = [obj EXCEPT ![r] = None]
    /\ exc' = [exc EXCEPT ![r] = None]
    /\ resp' = [resp EXCEPT ![r] = None]
    /\ UNCHANGED <<tables, query, document>>

(***************************************************************************)
(* Queries.  A query document is its root field with the nested fields     *)
(* selected under it; a task is one field of one parent instance, still to *)
(* be resolved.  Strawberry runs the field's resolver once per task.       *)
(***************************************************************************)
Field(name, sel) == [field |-> name, sel |-> sel]
RootTask(name, arg, sel) ==
    [type |-> "Query", field |-> name, arg |-> arg, parent |-> None, sel |-> sel]
NestedTask(instance, f) ==
    [type |-> instance.type, field |-> f.field, arg |-> None,
     parent |-> Some(instance), sel |-> f.sel]

Documents ==
    {RootTask("users", None, sel) :
        sel \in {<<>>,
                 <<Field("education", <<>>)>>,
                 <<Field("education", <<>>), Field("education", <<>>)>>,
                 <<Field("education", <<Field("user", <<>>)>>)>>,
                 <<Field("job_experience", <<Field("user", <<>>)>>)>>}}
    \cup {RootTask("user", Some(id), <<Field("education", <<Field("user", <<>>)>>)>>) :
            id \in IdStrings}
    \cup {RootTask("education_records", arg, <<Field("user", <<>>)>>) :
            arg \in {None} \cup {Some(id) : id \in IdStrings}}
    \cup {RootTask("job_experiences", arg, <<Field("user", <<>>)>>) :
            arg \in {None} \cup {Some(id) : id \in IdStrings}}

\* Query.users
Query_users == {User(UserModel(u)) : u \in users}

\* Query.user, Education.user, JobExperience.user: scalar_one_or_none()
OneUserOrNone(user_id) ==
    LET found == {u \in users : u.user_id = ToUuid(user_id)}
    IN  IF found = {} THEN None ELSE Some(User(UserModel(CHOOSE u \in found : TRUE)))
Query_user(user_id) == OneUserOrNone(user_id)
Education_user(self) == OneUserOrNone(self.user_id)
JobExperience_user(self) == OneUserOrNone(self.user_id)

\* Query.education_records: if user_id: ... where(user_id == user_id) else: all
Query_education_records(user_id) ==
    LET rows == IF TruthyStr(user_id)
                THEN {e \in education : e.user_id = ToUuid(user_id[1])}
                ELSE education
    IN  {Education(EducationModel(e)) : e \in rows}

\* Query.job_experiences
Query_job_experiences(user_id) ==
    LET rows == IF TruthyStr(user_id)
                THEN {j \in job_experience : j.user_id = ToUuid(user_id[1])}
                ELSE job_experience
    IN  {JobExperience(JobExperienceModel(j)) : j \in rows}

\* A variant without the where clause.
User_education_Unfiltered(self) == {Education(EducationModel(e)) : e \in education}

\* User.education
User_education(self) ==
    {Education(EducationModel(e)) :
        e \in {e \in education : e.user_id = ToUuid(self.user_id)}}

\* User.job_experience
User_job_experience(self) ==
    {JobExperience(JobExperienceModel(j)) :
        j \in {j \in job_experience : j.user_id = ToUuid(self.user_id)}}

\* The instances a resolver returned: a list's elements, or the one Optional value.
Instances(t, out) ==
    IF t.field = "user" THEN (IF out = None THEN {} ELSE {out[1]}) ELSE out

\* One task per returned instance and selected field, a field selected twice
\* (under two aliases) twice.
NestedTasks(instances, sel) ==
    LET ts == {NestedTask(i, sel[k]) : i \in instances, k \in DOMAIN sel}
    IN  [t \in ts |-> Cardinality({k \in DOMAIN sel : NestedTask(t.parent[1], sel[k]) = t})]

\* A variant where the children of a User come with the root statement (a join).
ExecuteJoined(t, n) == IF t.type = "User" THEN n ELSE n + 1

\* await session.execute(...): every resolver issues its statement, once.
Execute(t, n) == n + 1

StartQuery(r) ==
    /\ pc[r] = "idle"
    /\ \E d \in Documents :
         /\ input' = [input EXCEPT ![r] = Some(d)]
         /\ pending' = [pending EXCEPT ![r] = SetToBag({d})]
    /\ op' = [op EXCEPT ![r] = "query"]
    /\ pc' = [pc EXCEPT ![r] = "resolve"]
    /\ UNCHANGED <<tables, exc, mutation, calls, last, document>>

\* The resolver of task t returned out: its nested fields are scheduled, and
\* with nothing left to resolve the response is complete.
Resolved(r, t, out) ==
    LET left == (pending[r] (-) SetToBag({t})) (+) NestedTasks(Instances(t, out), t.sel)
    IN  /\ calls' = [calls EXCEPT ![r] = Execute(t, @)]
        /\ last' = [last EXCEPT ![r] = Some([task |-> t, out |-> out])]
        /\ pending' = [pending EXCEPT ![r] = left]
        /\ pc' = [pc EXCEPT ![r] = IF BagToSet(left) = {} THEN "done" ELSE "resolve"]
        /\ UNCHANGED <<tables, op, input, exc, mutation, document>>

\* The statement raised (the store cannot cast the text to uuid): a read has
\* no except branch, the error goes to the transport layer.
QueryRaised(r, t, e) ==
    /\ calls' = [calls EXCEPT ![r] = Execute(t, @)]
    /\ exc' = [exc EXCEPT ![r] = Some(e)]
    /\ pc' = [pc EXCEPT ![r] = "raised"]
    /\ UNCHANGED <<tables, op, input, mutation, pending, last, document>>

Task(r, type, name) ==
    {t \in BagToSet(pending[r]) : t.type = type /\ t.field = name}

ResolveUsers(r) ==
    /\ pc[r] = "resolve"
    /\ \E t \in Task(r, "Query", "users") : Resolved(r, t, Query_users)

ResolveUser(r) ==
    /\ pc[r] = "resolve"
    /\ \E t \in Task(r, "Query", "user") :
         IF IsUuidText(t.arg[1])
         THEN Resolved(r, t, Query_user(t.arg[1]))
         ELSE QueryRaised(r, t, "DataError")

ResolveEducationRecords(r) ==
    /\ pc[r] = "resolve"
    /\ \E t \in Task(r, "Query", "education_records") :
         IF TruthyStr(t.arg) /\ ~IsUuidText(t.arg[1])
         THEN QueryRaised(r, t, "DataError")
         ELSE Resolved(r, t, Query_education_records(t.arg))

ResolveJobExperiences(r) ==
    /\ pc[r] = "resolve"
    /\ \E t \in Task(r, "Query", "job_experiences") :
         IF TruthyStr(t.arg) /\ ~IsUuidText(t.arg[1])
         THEN QueryRaised(r, t, "DataError")
         ELSE Resolved(r, t, Query_job_experiences(t.arg))

ResolveUserEducation(r) ==
    /\ pc[r] = "resolve"
    /\ \E t \in Task(r, "User", "education") :
         Resolved(r, t, User_education(t.parent[1]))

ResolveUserJobExperience(r) ==
    /\ pc[r] = "resolve"
    /\ \E t \in Task(r, "User", "job_experience") :
         Resolved(r, t, User_job_experience(t.parent[1]))

ResolveEducationUser(r) ==
    /\ pc[r] = "resolve"
    /\ \E t \in Task(r, "Education", "user") :
         Resolved(r, t, Education_user(t.parent[1]))

ResolveJobExperienceUser(r) ==
    /\ pc[r] = "resolve"
    /\ \E t \in Task(r, "JobExperience", "user") :
         Resolved(r, t, JobExperience_user(t.parent[1]))

\* The connection is lost while a resolver awaits its statement.
QueryFails(r) ==
    /\ pc[r] = "resolve"
    /\ \E t \in BagToSet(pending[r]) : QueryRaised(r, t, "OperationalError")

MutationStep(r) ==
    \/ CreateUser(r) \/ CreateEducation(r) \/ CreateJobExperience(r)
    \/ CommitFails(r)
    \/ ReturnUser(r) \/ ReturnEducation(r) \/ ReturnJobExperience(r)
    \/ RefreshFails(r)
    \/ Rollback(r) \/ RollbackRaises(r)

QueryStep(r) ==
    \/ StartQuery(r)
    \/ ResolveUsers(r) \/ ResolveUser(r)
    \/ ResolveEducationRecords(r) \/ ResolveJobExperiences(r)
    \/ ResolveUserEducation(r) \/ ResolveUserJobExperience(r)
    \/ ResolveEducationUser(r) \/ ResolveJobExperienceUser(r)
    \/ QueryFails(r)

\* Requests served one after another.
Next == MutationStep("r1") \/ QueryStep("r1") \/ Finish("r1")

Spec == Init /\ [][Next]_vars

\* Two requests in flight at once, each creating users and reading them back.
UsersStep(r) ==
    \/ CreateUser(r) \/ ReturnUser(r) \/ RefreshFails(r)
    \/ Rollback(r) \/ RollbackRaises(r) \/ Finish(r)

NextConcurrent == \E r \in Requests : UsersStep(r)

SpecConcurrent == Init /\ [][NextConcurrent]_vars

\* Requests whose document is a mutation of up to MaxFields fields, each a
\* create_user or a create_education, run on the request's one session.
DocumentStep(r) ==
    \/ CreateUser(r) \/ CreateEducation(r)
    \/ ReturnUser(r) \/ ReturnEducation(r) \/ RefreshFails(r)
    \/ Rollback(r) \/ RollbackRaises(r)
    \/ NextField(r) \/ Finish(r)

NextDocument == DocumentStep("r1")

SpecDocument == Init /\ [][NextDocument]_vars

(***************************************************************************)
(* Properties.                                                             *)
(***************************************************************************)
Finished(r) == pc[r] \in {"done", "raised"}
Returned(r) == pc[r] = "done" /\ op[r] \in Mutations
Entity(r) == resp[r][1].entity[1]

\* The rows the request's own INSERT left in the store.
CreatedRows(r) ==
    IF obj[r] = None THEN {}
    ELSE CASE op[r] = "create_user" ->
                {u \in users : u.user_id = obj[r][1].user_id.id}
           [] op[r] = "create_education" ->
                {e \in education : e.education_id = obj[r][1].education_id.id}
           [] op[r] = "create_job_experience" ->
                {j \in job_experience : j.job_id = obj[r][1].job_id.id}

\* C1: a create operation that returns {success: false} returns no entity and
\* has left no row of its own in the store.
C1_FailureLeavesNoRow ==
    \A r \in Requests :
        (Returned(r) /\ ~resp[r][1].success) =>
            (resp[r][1].entity = None /\ CreatedRows(r) = {})

\* C2: no create operation ends by raising: none is ever left with an
\* exception on its way to the transport layer.
C2_NoExceptionPropagates ==
    \A r \in Requests : op[r] \in Mutations => pc[r] # "raised"

EmailsUnique == \A u1, u2 \in users : u1.email = u2.email => u1 = u2

\* C3: no two User rows share an email, and a create_user rejected by the
\* store while a row with its email exists ends with {success: false}, no
\* entity and no row of its own, the earlier row being the only one.
C3_DuplicateEmailFails ==
    /\ EmailsUnique
    /\ \A r \in Requests :
        (/\ op[r] = "create_user" /\ Finished(r)
         /\ exc[r] = Some("IntegrityError")
         /\ \E u \in users : u.email = input[r][1].email)
        => /\ pc[r] = "done"
           /\ ~resp[r][1].success /\ resp[r][1].entity = None
           /\ CreatedRows(r) = {}
           /\ Cardinality({u \in users : u.email = input[r][1].email}) = 1

\* The float a read returns for a stored grade, and the grade stored for an input.
ReadGrade(stored) ==
    IF stored \in {None, Some(0)} THEN None ELSE Some(10 * stored[1])
StoredGrade(given) ==
    IF given \in {None, Some(0)} THEN None ELSE Some(RoundHundredths(given[1]))

\* C4: the step that returns from a successful create returns success with an
\* entity whose identifier is that of a row in the store, whose fields are
\* that row's, the row carrying the values of the input (the grade coerced).
C4_SuccessReturnsStoredEntity ==
    [][\A r \in Requests :
        (pc[r] = "refresh" /\ pc'[r] = "done") =>
            LET in == input[r][1]
                E == resp'[r][1].entity[1]
            IN  /\ resp'[r][1].success
                /\ op[r] = "create_user" =>
                     \E u \in users' :
                        /\ E.user_id = Canon(u.user_id)
                        /\ E.email = u.email /\ E.full_name = u.full_name
                        /\ u.email = in.email /\ u.full_name = in.full_name
                        /\ u.password_hash = <<"hashed_", in.password>>
                /\ op[r] = "create_education" =>
                     \E e \in education' :
                        /\ E.education_id = Canon(e.education_id)
                        /\ E.user_id = Canon(e.user_id)
                        /\ E.institution_name = e.institution_name
                        /\ E.gpa = ReadGrade(e.gpa)
                        /\ in.user_id.form \in {"canon", "upper"}
                        /\ e.user_id = in.user_id.id
                        /\ e.institution_name = in.institution_name
                        /\ e.gpa = StoredGrade(in.gpa)
                /\ op[r] = "create_job_experience" =>
                     \E j \in job_experience' :
                        /\ E.job_id = Canon(j.job_id)
                        /\ E.user_id = Canon(j.user_id)
                        /\ E.company_name = j.company_name
                        /\ in.user_id.form \in {"canon", "upper"}
                        /\ j.user_id = in.user_id.id
                        /\ j.company_name = in.company_name
      ]_vars

\* A create_education whose input named its user in upper case and gave the
\* grade 3.756 has returned: the entity holds the canonical text and 3.76.
C4_Witness ==
    \E r \in Requests :
        /\ Returned(r) /\ op[r] = "create_education" /\ resp[r][1].success
        /\ input[r][1].user_id = Upper(1) /\ input[r][1].gpa = Some(3756)
        /\ Entity(r).user_id = Canon(1) /\ Entity(r).gpa = Some(3760)

OwnedEducation(text) == {e \in education : Canon(e.user_id) = text}
OwnedJobs(text) == {j \in job_experience : Canon(j.user_id) = text}

\* C5: a step that resolves User.education (User.job_experience) returns
\* exactly the Education (JobExperience) rows of the parent user, each with
\* the parent's identifier, and a step that resolves the user field of an
\* Education or a JobExperience returns a User with the identifier the child
\* holds.
C5_NestedFieldsRoundTrip ==
    [][\A r \in Requests :
        (pc[r] = "resolve" /\ calls'[r] = calls[r] + 1 /\ pc'[r] # "raised") =>
            LET t == last'[r][1].task
                out == last'[r][1].out
            IN  /\ (t.type = "User" /\ t.field = "education") =>
                     /\ {E.education_id : E \in out} =
                          {Canon(e.education_id) : e \in OwnedEducation(t.parent[1].user_id)}
                     /\ Cardinality(out) =
                          Cardinality(OwnedEducation(t.parent[1].user_id))
                     /\ \A E \in out : E.user_id = t.parent[1].user_id
                /\ (t.type = "User" /\ t.field = "job_experience") =>
                     /\ {J.job_id : J \in out} =
                          {Canon(j.job_id) : j \in OwnedJobs(t.parent[1].user_id)}
                     /\ Cardinality(out) = Cardinality(OwnedJobs(t.parent[1].user_id))
                     /\ \A J \in out : J.user_id = t.parent[1].user_id
                /\ (t.type \in {"Education", "JobExperience"} /\ t.field = "user") =>
                     /\ out # None
                     /\ out[1].user_id = t.parent[1].user_id
      ]_vars

\* With two users, each owning an Education row, users { education { user } }
\* has resolved the user of an Education of the second user.
C5_Witness ==
    \E r \in Requests :
        /\ last[r] # None /\ input[r][1].field = "users"
        /\ last[r][1].task.type = "Education" /\ last[r][1].task.field = "user"
        /\ last[r][1].task.parent[1].user_id = Canon(2)
        /\ last[r][1].out[1].user_id = Canon(2)
        /\ \E e \in education : e.user_id = 1

\* The supplied text names the owner of the row.
Owns(row, text) == IsUuidText(text) /\ row.user_id = ToUuid(text)

\* C6: education_records and job_experiences return every row when no filter
\* is supplied and, for any supplied value, exactly the rows whose owner the
\* value names.
C6_FilterSelectsOwnedRows ==
    \A r \in Requests :
        (last[r] # None /\ last[r][1].task.type = "Query") =>
            LET t == last[r][1].task
                out == last[r][1].out
            IN  /\ t.field = "education_records" =>
                     {E.education_id : E \in out} =
                        {Canon(e.education_id) :
                            e \in {e \in education : t.arg = None \/ Owns(e, t.arg[1])}}
                /\ t.field = "job_experiences" =>
                     {J.job_id : J \in out} =
                        {Canon(j.job_id) :
                            j \in {j \in job_experience : t.arg = None \/ Owns(j, t.arg[1])}}

ReturnsEducation(t) ==
    \/ t.type = "User" /\ t.field = "education"
    \/ t.type = "Query" /\ t.field = "education_records"

\* C7: a create_education with gpa 0.0 or no gpa that succeeds has stored null
\* and returned null, and every response and every read gives null for a
\* row whose stored grade is null or zero.
C7_ZeroGradeIsNull ==
    /\ \A r \in Requests :
        (Returned(r) /\ op[r] = "create_education" /\ resp[r][1].success) =>
            \A e \in education :
                Canon(e.education_id) = Entity(r).education_id =>
                    /\ input[r][1].gpa \in {None, Some(0)} =>
                            (e.gpa = None /\ Entity(r).gpa = None)
                    /\ e.gpa \in {None, Some(0)} => Entity(r).gpa = None
    /\ \A r \in Requests :
        (last[r] # None /\ ReturnsEducation(last[r][1].task)) =>
            \A E \in last[r][1].out : \A e \in education :
                (Canon(e.education_id) = E.education_id /\ e.gpa \in {None, Some(0)})
                    => E.gpa = None

\* A create_education with gpa 0.0 has returned success.
C7_Witness ==
    \E r \in Requests :
        /\ Returned(r) /\ op[r] = "create_education" /\ resp[r][1].success
        /\ input[r][1].gpa = Some(0)

\* A read has returned an Education whose stored grade is 0.00.
StoredZeroRead ==
    \E r \in Requests :
        /\ last[r] # None /\ ReturnsEducation(last[r][1].task)
        /\ \E E \in last[r][1].out : \E e \in education :
              Canon(e.education_id) = E.education_id /\ e.gpa = Some(0)

OwnersExist ==
    /\ \A e \in education : UserExists(e.user_id)
    /\ \A j \in job_experience : UserExists(j.user_id)

NoSuchUser(text) == ~IsUuidText(text) \/ ~UserExists(ToUuid(text))

\* C8: every Education and JobExperience row names an existing User, and a
\* create_education or create_job_experience whose user_id matches no User
\* ends with {success: false} and no row of its own.
C8_OwnersExist ==
    /\ OwnersExist
    /\ \A r \in Requests :
        (/\ op[r] \in {"create_education", "create_job_experience"}
         /\ Finished(r) /\ NoSuchUser(input[r][1].user_id))
        => (pc[r] = "done" /\ ~resp[r][1].success /\ CreatedRows(r) = {})

UniqueKeys ==
    /\ \A a, b \in users : a.user_id = b.user_id => a = b
    /\ \A a, b \in education : a.education_id = b.education_id => a = b
    /\ \A a, b \in job_experience : a.job_id = b.job_id => a = b

\* C9: no two rows of a table ever share an identifier; the identifier a
\* commit gives a new row was the identifier of no row of its table, and the
\* identifier a create returns is that of the row it committed.
C9_IdentifiersUnique ==
    [][/\ UniqueKeys'
       /\ \A r \in Requests :
            /\ (pc[r] = "idle" /\ pc'[r] = "refresh") =>
                 /\ op'[r] = "create_user" =>
                      /\ obj'[r][1].user_id.id \notin UserIds
                      /\ Cardinality(users') = Cardinality(users) + 1
                 /\ op'[r] = "create_education" =>
                      /\ obj'[r][1].education_id.id \notin EducationIds
                      /\ Cardinality(education') = Cardinality(education) + 1
                 /\ op'[r] = "create_job_experience" =>
                      /\ obj'[r][1].job_id.id \notin JobIds
                      /\ Cardinality(job_experience') = Cardinality(job_experience) + 1
            /\ (pc[r] = "refresh" /\ pc'[r] = "done") =>
                 /\ op[r] = "create_user" =>
                      resp'[r][1].entity[1].user_id = Canon(obj[r][1].user_id.id)
                 /\ op[r] = "create_education" =>
                      resp'[r][1].entity[1].education_id = Canon(obj[r][1].education_id.id)
                 /\ op[r] = "create_job_experience" =>
                      resp'[r][1].entity[1].job_id = Canon(obj[r][1].job_id.id)
      ]_vars

\* A second create_user has returned, with an identifier other than the first's.
C9_Witness ==
    \E r \in Requests :
        /\ Returned(r) /\ op[r] = "create_user" /\ resp[r][1].success
        /\ Cardinality(users) = 2
        /\ \E u \in users : Canon(u.user_id) # Entity(r).user_id

UsersEducation == RootTask("users", None, <<Field("education", <<>>)>>)
UsersEducationTwice ==
    RootTask("users", None, <<Field("education", <<>>), Field("education", <<>>)>>)

\* C10: a completed users { education } has issued 1 + K calls for the K
\* users of the store, and with the education field selected twice 1 + 2K.
C10_OneCallPerParent ==
    \A r \in Requests :
        (op[r] = "query" /\ pc[r] = "done") =>
            /\ input[r][1] = UsersEducation => calls[r] = 1 + Cardinality(users)
            /\ input[r][1] = UsersEducationTwice =>
                 calls[r] = 1 + 2 * Cardinality(users)

\* Over two users, users { education education } has completed with 5 calls.
C10_Witness ==
    \E r \in Requests :
        /\ op[r] = "query" /\ pc[r] = "done"
        /\ input[r][1] = UsersEducationTwice
        /\ Cardinality(users) = 2 /\ calls[r] = 5

\* The row of a returned entity is in the store, with the entity's fields.
Persisted(E) ==
    CASE E.type = "User" ->
           \E u \in users :
              /\ Canon(u.user_id) = E.user_id
              /\ u.email = E.email /\ u.full_name = E.full_name
      [] E.type = "Education" ->
           \E e \in education :
              /\ Canon(e.education_id) = E.education_id
              /\ Canon(e.user_id) = E.user_id
              /\ e.institution_name = E.institution_name
      [] E.type = "JobExperience" ->
           \E j \in job_experience :
              /\ Canon(j.job_id) = E.job_id
              /\ Canon(j.user_id) = E.user_id
              /\ j.company_name = E.company_name

\* The create of field k of the request's document returned success.
Succeeded(r, k) == k \in DOMAIN data[r] /\ data[r][k].success
\* A create of the request after field k failed: it returned a failure, or
\* it is in its except branch, or its rollback raised.
FailedAfter(r, k) ==
    \/ \E j \in DOMAIN data[r] : j > k /\ ~data[r][j].success
    \/ Len(data[r]) >= k /\ pc[r] \in {"except", "raised"}
\* A create of the request before field k returned a failure.
FailedBefore(r, k) == \E j \in DOMAIN data[r] : j < k /\ ~data[r][j].success

\* C11: within one request, the row of a create that returned success stays
\* in the store when a later create of the request fails and rolls back, and
\* the row of a create that returned success after an earlier create of the
\* request failed is in the store.
C11_EachCreateCommitsOnItsOwn ==
    \A r \in Requests :
        \A k \in DOMAIN data[r] :
            (Succeeded(r, k) /\ (FailedAfter(r, k) \/ FailedBefore(r, k)))
                => Persisted(data[r][k].entity[1])

\* One request has created a user, failed to create the same user again
\* (the store rejected the email, the handler rolled back) and then created
\* an Education of the first user: both rows are in the store.
C11_Witness ==
    \E r \in Requests :
        /\ Len(data[r]) = 3 /\ pc[r] = "done"
        /\ data[r][1].success /\ data[r][1].entity[1].type = "User"
        /\ ~data[r][2].success /\ data[r][2].message = "IntegrityError"
        /\ data[r][3].success /\ data[r][3].entity[1].type = "Education"
        /\ data[r][3].entity[1].user_id = data[r][1].entity[1].user_id
        /\ Persisted(data[r][1].entity[1]) /\ Persisted(data[r][3].entity[1])

====
